---- MODULE Spec2Model ----
(***************************************************************************)
(* Model of src/src/EmojiPhysics.ts (class EmojiPhysics) and of the calls  *)
(* src/src/SkeetMoji.tsx makes on it.                                      *)
(*                                                                         *)
(* The physics world is the set of top-level bodies of the Matter.js world *)
(* and the set of its constraints.  A body is a record                     *)
(*   id, kind, label, isStatic, position, parts, texture                   *)
(* where `kind` names the place of the source that created the body (it is *)
(* not a field of the program, the program only sees label, isStatic and   *)
(* id) and `parts` are the child parts of a compound body.  As in          *)
(* Matter.js, the list body.parts starts with the body itself, see Parts.  *)
(***************************************************************************)
EXTENDS Integers, Sequences, FiniteSets, TLC

\* ---------------------------------------------------------------- bounds
\* The population cap of the program is 1000; the model runs it scaled down.
MAX_EMOJIS == 1
\* Emoji bodies the world may hold beyond the cap before spawning stops.
MaxOver == 1
\* How far below zero the population counter may drift.
MaxDrift == 2
\* Pending pendulum image loads at any one time.
MaxPending == 2
\* Symbols one message may carry beyond MAX_EMOJIS.
MaxBurst == 2

\* ------------------------------------------------------ program constants
BIG_BALL_RADIUS == 50
bottomBorderHeight == 20
bottomBorderOffset == 20
swingForce == 50

\* Playfields <<width, height>> the container can have.
Dims == { <<200, 200>>, <<400, 100>> }
\* the narrow one: the left paddlewheel and the swing of the pendulum reach
\* beyond its left edge
Playfield == { <<200, 200>> }
\* Tops of the container, before and after the page is scrolled.
Tops == { 0, 40 }
\* Symbols that the feed delivers.
Symbols == { "fire" }
\* Symbols of a feed that has more than one.
Alphabet == { "fire", "heart" }
\* The four obstacle layouts, in the order of the rnd thresholds.
Layouts == { "pegs", "slats", "paddlewheels", "paddles" }

VARIABLES
    RenderWidth,    \* this.RenderWidth
    RenderHeight,   \* this.RenderHeight
    RenderTop,      \* this.RenderTop
    world,          \* set of top-level bodies of this._world
    constraints,    \* set of constraints of this._world
    emojiCount,     \* this._emojiCount
    bigBallId,      \* this._bigBallId
    bigBall,        \* this._bigBall (NoBody while undefined)
    emojiMap,       \* this._emojiMap, a function from its keys to textures
    pendingLoads,   \* img.onload/onerror callbacks not yet run, each with
                    \* the constraintLength its closure captured
    layout,         \* layout the last Init() rolled
    swingDirection, \* this._swingDirection
    rasterCount,    \* times createEmojiTexture has drawn on the shared canvas
    resolved,       \* symbols getEmojiTexture has been called for
    last            \* the last operation and what it did

vars == << RenderWidth, RenderHeight, RenderTop, world, constraints, emojiCount,
           bigBallId, bigBall, emojiMap, pendingLoads, layout, swingDirection,
           rasterCount, resolved, last >>

NoBody == [ id |-> 0, kind |-> "none", label |-> "none", isStatic |-> TRUE,
            position |-> <<0, 0>>, parts |-> {}, texture |-> "none" ]

\* Bodies.circle / Bodies.rectangle: one simple body
MkBody(id, kind, label, isStatic, pos, tex) ==
    [ id |-> id, kind |-> kind, label |-> label, isStatic |-> isStatic,
      position |-> pos, parts |-> {}, texture |-> tex ]

\* a part of a body, as the forEach loops over body.parts see it
MkPart(id, kind, label, isStatic, pos) ==
    [ id |-> id, kind |-> kind, label |-> label, isStatic |-> isStatic,
      position |-> pos ]

SelfPart(b) == MkPart(b.id, b.kind, b.label, b.isStatic, b.position)

\* body.parts: the body itself followed by its child parts
Parts(b) == { SelfPart(b) } \cup b.parts

\* every part the two forEach loops visit
AllParts(w) == UNION { Parts(b) : b \in w }

\* ------------------------------------------------------------ arithmetic
\* Positions are kept in half pixels, so that the halves the layout
\* arithmetic produces (W/2, adjust/2, slatCount/2*75) stay integers.
Px(n) == 2 * n

\* Math.round(num/den) for num >= 0, den > 0
Round(num, den) == (2 * num + den) \div (2 * den)

\* get bigBallAnchorPoint
bigBallAnchorPoint == << RenderWidth, 0 >>

\* constraintLength of addSwingingBall, in pixels (circleBottomOffset is 5)
ConstraintLength(h) ==
    h - bottomBorderOffset - (bottomBorderHeight \div 2) - BIG_BALL_RADIUS - 5

\* ---------------------------------------------------------------- body ids
\* The physics library numbers the bodies it creates.  The program only
\* ever tests two ids for equality, so the model hands out the smallest ids
\* that no body of the world, no part of one, and neither _bigBallId nor
\* _bigBall still carries.
Drop(q, n) == SubSeq(q, n + 1, Len(q))

IdsInUse(w, ballId) == { part.id : part \in AllParts(w) } \cup { ballId }

\* the n smallest ids above 0 that are not in `used`, in increasing order
RECURSIVE FreshFrom(_, _, _)
FreshFrom(used, n, from) ==
    IF n = 0 THEN << >>
    ELSE IF from \in used THEN FreshFrom(used, n, from + 1)
    ELSE << from >> \o FreshFrom(used, n - 1, from + 1)

FreshIds(used, n) == FreshFrom(used, n, 1)

\* --------------------------------------------------------- obstacle course
\* Each builder returns the bodies and constraints it adds to the world and
\* the number of body ids it used; `ids` are the ids the library hands out,
\* in the order of the calls that create the bodies.

\* the two boundary rectangles of Init()
Boundaries(w, h, ids) ==
    { MkBody(ids[1], "boundary", "Rectangle Body", TRUE, << w, Px(-10) >>, "none"),
      MkBody(ids[2], "boundary", "Rectangle Body", TRUE,
             << w, Px(h - bottomBorderOffset) >>, "none") }

PegRows(h) == Round(h, 75)
PegCols(h) == Round(100 * h, 3333)

\* pegs pushed before row `row` of a grid with `cols` columns
PegsBefore(row, cols) ==
    ((row + 1) \div 2) * ((cols + 1) \div 2) + (row \div 2) * (cols \div 2)

createPegs(w, h, ids, radius, spacing) ==
    LET rows == PegRows(h)
        cols == PegCols(h)
        startX == w - (cols - 1) * spacing
        startY == (h - BIG_BALL_RADIUS * 2) - (rows - 1) * spacing
        cells == { c \in (0 .. rows - 1) \X (0 .. cols - 1) : c[1] % 2 = c[2] % 2 }
    IN  [ bodies |-> { MkBody(ids[1 + PegsBefore(c[1], cols) + (c[2] \div 2)],
                              "peg", "Circle Body", TRUE,
                              << startX + c[2] * Px(spacing),
                                 startY + c[1] * Px(spacing) >>, "none")
                       : c \in cells },
          constraints |-> {},
          used |-> Cardinality(cells) ]

createSlats(w, h, ids) ==
    LET slatCount == Round(h, 150)
    IN  [ bodies |-> { MkBody(ids[1 + i], "slat", "Rectangle Body", TRUE,
                              << w + (IF i % 2 = 0 THEN Px(-120) ELSE Px(120)),
                                 (h - BIG_BALL_RADIUS * 2) - slatCount * 75
                                    + i * Px(75) >>, "none")
                       : i \in 0 .. slatCount - 1 },
          constraints |-> {},
          used |-> slatCount ]

\* one paddlewheel at <<x, y>> (half pixels): the central circle and four
\* paddles made parts of one compound body, pinned by a constraint
createPaddlewheel(x, y, ids) ==
    LET circle == MkPart(ids[1], "wheelCircle", "Circle Body", FALSE, << x, y >>)
        paddles == { MkPart(ids[2 + i], "wheelPaddle", "Rectangle Body", FALSE,
                            << x, y >>) : i \in 0 .. 3 }
        wheel == [ id |-> ids[6], kind |-> "wheel", label |-> "Body",
                   isStatic |-> FALSE, position |-> << x, y >>,
                   parts |-> { circle } \cup paddles, texture |-> "none" ]
    IN  [ bodies |-> { wheel },
          constraints |-> { [ kind |-> "pin", pointA |-> << x, y >>,
                              bodyB |-> ids[6], length |-> 0 ] },
          used |-> 6 ]

createPaddle(x, y, ids) ==
    [ bodies |-> { MkBody(ids[1], "paddle", "Rectangle Body", FALSE, << x, y >>, "none") },
      constraints |-> { [ kind |-> "pin", pointA |-> << x, y >>,
                          bodyB |-> ids[1], length |-> 0 ] },
      used |-> 1 ]

Join(a, b) ==
    [ bodies |-> a.bodies \cup b.bodies,
      constraints |-> a.constraints \cup b.constraints,
      used |-> a.used + b.used ]

\* body ids the builder of a layout asks for
LayoutIds(lay, h) ==
    CASE lay = "pegs" -> PegsBefore(PegRows(h), PegCols(h))
      [] lay = "slats" -> Round(h, 150)
      [] lay = "paddlewheels" -> 12
      [] lay = "paddles" -> 2

\* the layout branch of Init(): rnd <= 0.25, <= 0.5, <= 0.75, else
BuildLayout(lay, w, h, ids) ==
    CASE lay = "pegs" -> createPegs(w, h, ids, 5, 25)
      [] lay = "slats" -> createSlats(w, h, ids)
      [] lay = "paddlewheels" ->
            LET paddleDiam == 250
                rightY == (h - BIG_BALL_RADIUS * 2) - 200
                \* paddleDiamAdjust, in half pixels
                adjust2 == IF Px(paddleDiam \div 2) > rightY - Px(5)
                           THEN Px(paddleDiam \div 2) - rightY + Px(5) ELSE 0
                right == createPaddlewheel(w + paddleDiam - Px(10) - (adjust2 \div 2),
                                           rightY, ids)
                left == createPaddlewheel(w - paddleDiam + Px(10),
                                          h - BIG_BALL_RADIUS * 2,
                                          Drop(ids, right.used))
            IN  Join(right, left)
      [] lay = "paddles" ->
            LET paddleDiam == 220
                right == createPaddle(w + paddleDiam, h - BIG_BALL_RADIUS * 2, ids)
                left == createPaddle(w - paddleDiam, h - BIG_BALL_RADIUS * 2,
                                     Drop(ids, right.used))
            IN  Join(right, left)

\* ------------------------------------------------------------- textures
\* createEmojiTexture: the data URL of the symbol drawn on the shared canvas
createEmojiTexture(emoji) ==
    CASE emoji = "fire" -> "data:image/png;fire"
      [] emoji = "heart" -> "data:image/png;heart"

\* getEmojiTexture: the cached texture, or a new one put into the cache;
\* returns the texture and the cache after the call
\* getEmojiTexture without its _emojiMap.set
getEmojiTextureNoStore(map, emoji) ==
    IF emoji \in DOMAIN map
    THEN [ texture |-> map[emoji], map |-> map, drawn |-> 0 ]
    ELSE [ texture |-> createEmojiTexture(emoji), map |-> map, drawn |-> 1 ]

\* getEmojiTexture with a cache that holds the last texture only
getEmojiTextureEvict(map, emoji) ==
    IF emoji \in DOMAIN map
    THEN [ texture |-> map[emoji], map |-> map, drawn |-> 0 ]
    ELSE LET texture == createEmojiTexture(emoji)
         IN  [ texture |-> texture, map |-> (emoji :> texture), drawn |-> 1 ]

\* the texture, the cache after the call and the times the canvas was drawn
getEmojiTexture(map, emoji) ==
    IF emoji \in DOMAIN map
    THEN [ texture |-> map[emoji], map |-> map, drawn |-> 0 ]
    ELSE LET texture == createEmojiTexture(emoji)
         IN  [ texture |-> texture, map |-> (emoji :> texture) @@ map,
               drawn |-> 1 ]

\* ----------------------------------------------------- population manager
\* the test of both forEach loops: a non-static circle that is not the
\* body whose id is _bigBallId
isCircle(part, ballId) ==
    part.label = "Circle Body" /\ part.isStatic = FALSE /\ part.id # ballId

\* the bounds test without its left edge
OutOfBoundsNoLeft(pos, w, h) ==
    pos[2] > Px(h) \/ pos[1] > Px(w)

\* the bounds test with the edges themselves counted as outside
OutOfBoundsInclusive(pos, w, h) ==
    pos[2] >= Px(h) \/ pos[1] <= 0 \/ pos[1] >= Px(w)

\* the bounds test with the top edge closed as well
OutOfBoundsWithTop(pos, w, h) ==
    pos[2] > Px(h) \/ pos[2] < 0 \/ pos[1] < 0 \/ pos[1] > Px(w)

\* the bounds test with its test of y turned round
OutOfBoundsAbove(pos, w, h) ==
    pos[2] < Px(h) \/ pos[1] < 0 \/ pos[1] > Px(w)

\* the bounds test of the afterRender handler, on half pixels
OutOfBounds(pos, w, h) ==
    pos[2] > Px(h) \/ pos[1] < 0 \/ pos[1] > Px(w)

\* World.remove(world, part) for every part of `gone`: a top-level body of
\* the world leaves it, a part that is not a top-level body changes nothing
WorldRemove(w, gone) == { b \in w : SelfPart(b) \notin gone }

\* what the last operation was, what it returned (the id of the body, 0 for
\* undefined) and the parts it ran _emojiCount-- for
Done(op, ret, dec) == [ op |-> op, ret |-> ret, dec |-> dec ]
Counted(hit) == { [ id |-> part.id, kind |-> part.kind ] : part \in hit }

\* parts the afterRender handler removes and counts down for
CleanupHits(w, ballId, width, height) ==
    { part \in AllParts(w) :
         isCircle(part, ballId) /\ OutOfBounds(part.position, width, height) }

\* the afterRender handler
Cleanup ==
    LET hit == CleanupHits(world, bigBallId, RenderWidth, RenderHeight)
    IN  /\ world' = WorldRemove(world, hit)
        /\ emojiCount' = emojiCount - Cardinality(hit)
        /\ last' = Done("cleanup", 0, Counted(hit))
        /\ UNCHANGED << RenderWidth, RenderHeight, RenderTop, constraints, bigBallId,
                        bigBall, emojiMap, pendingLoads, layout,
                        swingDirection,
                    rasterCount, resolved >>

\* parts ClearAllEmojis removes and counts down for
ClearHits(w, ballId) == { part \in AllParts(w) : isCircle(part, ballId) }

ClearAllEmojis ==
    LET hit == ClearHits(world, bigBallId)
    IN  /\ world' = WorldRemove(world, hit)
        /\ emojiCount' = emojiCount - Cardinality(hit)
        /\ last' = Done("clear", 0, Counted(hit))
        /\ UNCHANGED << RenderWidth, RenderHeight, RenderTop, constraints, bigBallId,
                        bigBall, emojiMap, pendingLoads, layout,
                        swingDirection,
                    rasterCount, resolved >>

\* bodies made by CreateEmojiBall, pendulums made by img.onload
EmojiBodies(w) == { b \in w : b.kind = "emoji" }
Pendulums(w) == { b \in w : b.kind = "pendulum" }

\* randomOffset for Math.random() = 0 and 0.5, in half pixels
Offsets(w) == { -(w \div 25), 0 }

\* the cap test, off by one
AtCapOffByOne(count) == count > MAX_EMOJIS

\* the cap test, one too early
AtCapEarly(count) == count + 1 >= MAX_EMOJIS

\* the cap test at the head of CreateEmojiBall
AtCap(count) == count >= MAX_EMOJIS

\* what Bodies.circle does in a call: returns the body, returns nothing, or
\* throws
Outcomes == { "body", "none", "throws" }

\* a CreateEmojiBall call: its argument, the texture the cache gave it
\* ("none" when the cache was not asked), the times the canvas was drawn,
\* what Bodies.circle did, and the id of the body returned (0 for undefined)
Called(emoji, texture, drawn, made, ret) ==
    [ op |-> "spawn", ret |-> ret, dec |-> {}, emoji |-> emoji,
      texture |-> texture, drawn |-> drawn, made |-> made ]

\* the part of the state CreateEmojiBall works on
Population ==
    [ world |-> world, emojiCount |-> emojiCount, emojiMap |-> emojiMap,
      rasterCount |-> rasterCount, resolved |-> resolved ]

\* CreateEmojiBall with the texture resolved before the cap is tested
CreateEmojiBallOnLookupFirst(pop, ballId, width, emoji, randomOffset, made) ==
    LET got == getEmojiTexture(pop.emojiMap, emoji)
        id == FreshIds(IdsInUse(pop.world, ballId), 1)[1]
        ball == MkBody(id, "emoji", "Circle Body", FALSE,
                       << width + randomOffset, 0 >>, got.texture)
        looked == [ pop EXCEPT !.emojiMap = got.map,
                               !.rasterCount = @ + got.drawn,
                               !.resolved = @ \cup { emoji } ]
    IN  IF AtCap(pop.emojiCount)
        THEN [ pop |-> looked,
               call |-> Called(emoji, got.texture, got.drawn, "unreached", 0) ]
        ELSE IF made = "body"
        THEN [ pop |-> [ looked EXCEPT !.emojiCount = @ + 1,
                                       !.world = @ \cup { ball } ],
               call |-> Called(emoji, got.texture, got.drawn, made, ball.id) ]
        ELSE [ pop |-> IF made = "none" THEN looked
                       ELSE [ looked EXCEPT !.emojiCount = @ + 1 ],
               call |-> Called(emoji, got.texture, got.drawn, made, 0) ]

\* CreateEmojiBall on the population pop: the population it leaves and the
\* call as it went.  At the cap it returns at once.  Below it: the texture,
\* _emojiCount++, Bodies.circle; a body is added to the world, no body
\* takes the increment back, and a throw leaves the method there and then
CreateEmojiBallOn(pop, ballId, width, emoji, randomOffset, made) ==
    IF AtCap(pop.emojiCount)
    THEN [ pop |-> pop, call |-> Called(emoji, "none", 0, "unreached", 0) ]
    ELSE LET got == getEmojiTexture(pop.emojiMap, emoji)
             id == FreshIds(IdsInUse(pop.world, ballId), 1)[1]
             ball == MkBody(id, "emoji", "Circle Body", FALSE,
                            << width + randomOffset, 0 >>, got.texture)
             looked == [ pop EXCEPT !.emojiMap = got.map,
                                    !.rasterCount = @ + got.drawn,
                                    !.resolved = @ \cup { emoji } ]
         IN  IF made = "body"
             THEN [ pop |-> [ looked EXCEPT !.emojiCount = @ + 1,
                                            !.world = @ \cup { ball } ],
                    call |-> Called(emoji, got.texture, got.drawn, made, ball.id) ]
             ELSE [ pop |-> IF made = "none" THEN looked
                            ELSE [ looked EXCEPT !.emojiCount = @ + 1 ],
                    call |-> Called(emoji, got.texture, got.drawn, made, 0) ]

CreateEmojiBall(emoji, randomOffset, made) ==
    LET r == CreateEmojiBallOn(Population, bigBallId, RenderWidth, emoji,
                               randomOffset, made)
    IN  /\ world' = r.pop.world
        /\ emojiCount' = r.pop.emojiCount
        /\ emojiMap' = r.pop.emojiMap
        /\ rasterCount' = r.pop.rasterCount
        /\ resolved' = r.pop.resolved
        /\ last' = r.call
        /\ UNCHANGED << RenderWidth, RenderHeight, RenderTop, constraints, bigBallId,
                        bigBall, pendingLoads, layout, swingDirection >>

\* the for loop of processEvent over the symbols of one message, each with
\* the offset Math.random() gives its ball: the population it leaves and the
\* number of calls that returned undefined
RECURSIVE ForEachEmoji(_, _, _, _)
ForEachEmoji(pop, ballId, width, emojis) ==
    IF emojis = << >>
    THEN [ pop |-> pop, rejected |-> 0 ]
    ELSE LET r == CreateEmojiBallOn(pop, ballId, width, Head(emojis)[1],
                                    Head(emojis)[2], "body")
             rest == ForEachEmoji(r.pop, ballId, width, Tail(emojis))
         IN  [ pop |-> rest.pop,
               rejected |-> rest.rejected + (IF r.call.ret = 0 THEN 1 ELSE 0) ]

\* one message of the feed, handled: the calls made and those rejected
Handled(calls, rejected) ==
    [ op |-> "event", ret |-> 0, dec |-> {}, calls |-> calls,
      rejected |-> rejected ]

ProcessEvent(emojis) ==
    LET r == ForEachEmoji(Population, bigBallId, RenderWidth, emojis)
    IN  /\ emojis # << >>
        /\ world' = r.pop.world
        /\ emojiCount' = r.pop.emojiCount
        /\ emojiMap' = r.pop.emojiMap
        /\ rasterCount' = r.pop.rasterCount
        /\ resolved' = r.pop.resolved
        /\ last' = Handled(Len(emojis), r.rejected)
        /\ UNCHANGED << RenderWidth, RenderHeight, RenderTop, constraints, bigBallId,
                        bigBall, pendingLoads, layout, swingDirection >>

\* ------------------------------------------------------------------ Init()
\* Init() without its World.clear: the new build is added to the old world
InitBodyKeep(w, h, lay, ballId, loads) ==
    LET ids == FreshIds(IdsInUse(world, ballId), 2 + LayoutIds(lay, h))
        built == BuildLayout(lay, w, h, Drop(ids, 2))
    IN  /\ world' = world \cup Boundaries(w, h, ids) \cup built.bodies
        /\ constraints' = constraints \cup built.constraints
        /\ layout' = lay
        /\ pendingLoads' = Append(loads, ConstraintLength(h))

\* World.clear, the boundaries, the rolled layout, then addSwingingBall,
\* which only starts the image load: the pendulum is made by img.onload
InitBody(w, h, lay, ballId, loads) ==
    LET ids == FreshIds({ ballId }, 2 + LayoutIds(lay, h))
        built == BuildLayout(lay, w, h, Drop(ids, 2))
    IN  /\ world' = Boundaries(w, h, ids) \cup built.bodies
        /\ constraints' = built.constraints
        /\ layout' = lay
        /\ pendingLoads' = Append(loads, ConstraintLength(h))

InitCall(lay) ==
    /\ InitBody(RenderWidth, RenderHeight, lay, bigBallId, pendingLoads)
    /\ last' = Done("init", 0, {})
    /\ UNCHANGED << RenderWidth, RenderHeight, RenderTop, emojiCount, bigBallId, bigBall,
                    emojiMap, swingDirection,
                    rasterCount, resolved >>

\* set Dimensions, to the width and height d and the top t
Dimensions(d, t, lay) ==
    /\ RenderWidth' = d[1]
    /\ RenderHeight' = d[2]
    /\ RenderTop' = t
    /\ InitBody(d[1], d[2], lay, bigBallId, pendingLoads)
    /\ last' = Done("init", 0, {})
    /\ UNCHANGED << emojiCount, bigBallId, bigBall, emojiMap, swingDirection,
                    rasterCount, resolved >>

RemoveAt(q, i) == SubSeq(q, 1, i - 1) \o SubSeq(q, i + 1, Len(q))

\* img.onload of the i-th pending load
PendulumLoaded(i) ==
    LET constraintLength == pendingLoads[i]
        id == FreshIds(IdsInUse(world, bigBallId), 1)[1]
        ball == MkBody(id, "pendulum", "Circle Body", FALSE,
                       << RenderWidth, Px(constraintLength + BIG_BALL_RADIUS) >>,
                       "butterfly")
    IN  /\ bigBall' = ball
        /\ bigBallId' = ball.id
        /\ world' = world \cup { ball }
        /\ constraints' = constraints \cup
              { [ kind |-> "rope", pointA |-> bigBallAnchorPoint,
                  bodyB |-> ball.id, length |-> constraintLength ] }
        /\ pendingLoads' = RemoveAt(pendingLoads, i)
        /\ last' = Done("onload", ball.id, {})
        /\ UNCHANGED << RenderWidth, RenderHeight, RenderTop, emojiCount, emojiMap, layout,
                        swingDirection,
                    rasterCount, resolved >>

\* img.onerror of the i-th pending load
PendulumLoadFailed(i) ==
    /\ pendingLoads' = RemoveAt(pendingLoads, i)
    /\ last' = Done("onerror", 0, {})
    /\ UNCHANGED << RenderWidth, RenderHeight, RenderTop, world, constraints, emojiCount,
                    bigBallId, bigBall, emojiMap, layout, swingDirection,
                    rasterCount, resolved >>

\* ------------------------------------------------------------ engine step
\* Places the engine can move an emoji ball to: the inclusive corner of the
\* playfield, a point above the top edge, and one just beyond each open edge
SamplePositions(w, h) ==
    { << Px(w), Px(h) >>, << 0, -2 >>,
      << -1, 0 >>, << Px(w) + 1, Px(h) >>, << Px(w), Px(h) + 1 >> }

\* the one of them the population counter needs: a ball is inside where it
\* is spawned, and outside once it has fallen below the bottom edge
CoarsePositions(w, h) == { << Px(w), Px(h) + 1 >> }

\* A place the engine can move a pendulum to, on the arc of its rope: level
\* with the anchor, on its left
ArcPositions(w, len) == { << w - Px(len), 0 >> }

\* Directions from the anchor, as cosine and sine in thousandths: 0.4, 0.2,
\* 0.6 and 0.8 of pi below the anchor, pi, and 0.2 of pi above it
ArcDirections ==
    { << 309, 951 >>, << 809, 588 >>, << -309, 951 >>, << -809, 588 >>,
      << -1000, 0 >>, << 809, -588 >> }

\* the places on the arc of a rope of length len in those directions
WideArcPositions(w, len) ==
    { << w + (Px(len) * d[1]) \div 1000, (Px(len) * d[2]) \div 1000 >>
        : d \in ArcDirections }

RopeLength(b) ==
    LET ropes == { c \in constraints : c.bodyB = b.id }
    IN  IF ropes = {} THEN 0 ELSE (CHOOSE c \in ropes : TRUE).length

\* ------------------------------------------------------------ force hook
Abs(n) == IF n < 0 THEN -n ELSE n

\* tan(0.3 * pi) = 1.3763819..., as a fraction that no pair of coordinates
\* of the model comes near
TanNum == 1376382
TanDen == 1000000

\* Math.abs(Math.atan2(dy, dx)) against the three thresholds of the hook;
\* atan2(0, 0) is 0
AngleAbove07(dx, dy) == dx < 0 /\ Abs(dy) * TanDen < TanNum * Abs(dx)
AngleBelow03(dx, dy) ==
    \/ dx > 0 /\ Abs(dy) * TanDen < TanNum * dx
    \/ dx = 0 /\ dy = 0
AngleBelowHalf(dx, dy) == dx > 0 \/ (dx = 0 /\ dy = 0)
AngleAboveHalf(dx, dy) == dx < 0

\* the direction test with its two thresholds exchanged
NextDirectionSwapped(dir, dx, dy) ==
    IF AngleBelow03(dx, dy) /\ dir = -1 THEN 1
    ELSE IF AngleAbove07(dx, dy) /\ dir = 1 THEN -1
    ELSE dir

\* the if / else if of the hook that reverses _swingDirection
NextDirection(dir, dx, dy) ==
    IF AngleAbove07(dx, dy) /\ dir = -1 THEN 1
    ELSE IF AngleBelow03(dx, dy) /\ dir = 1 THEN -1
    ELSE dir

\* the force test without the direction
ForceXAnyDirection(dir, dx, dy) ==
    IF AngleBelowHalf(dx, dy) \/ AngleAboveHalf(dx, dy)
    THEN dir * swingForce ELSE 0

\* x of the force the hook applies for direction dir, 0 when it applies none
ForceX(dir, dx, dy) ==
    IF (dir = 1 /\ AngleBelowHalf(dx, dy)) \/ (dir = -1 /\ AngleAboveHalf(dx, dy))
    THEN dir * swingForce ELSE 0

\* the hook with the force taken from the direction it found
BeforeUpdatePreFlip(ball, dir, anchor) ==
    IF ball = NoBody
    THEN [ direction |-> dir, force |-> 0 ]
    ELSE LET dx == ball.position[1] - anchor[1]
             dy == ball.position[2] - anchor[2]
         IN  [ direction |-> NextDirection(dir, dx, dy),
               force |-> ForceX(dir, dx, dy) ]

\* the beforeUpdate handler on _bigBall at ball: the direction it leaves and
\* the force it applies (nothing while _bigBall is undefined)
BeforeUpdate(ball, dir, anchor) ==
    IF ball = NoBody
    THEN [ direction |-> dir, force |-> 0 ]
    ELSE LET dx == ball.position[1] - anchor[1]
             dy == ball.position[2] - anchor[2]
             flipped == NextDirection(dir, dx, dy)
         IN  [ direction |-> flipped, force |-> ForceX(flipped, dx, dy) ]

\* a physics tick: the direction its hook found and the force it applied
Ticked(was, force) ==
    [ op |-> "tick", ret |-> 0, dec |-> {}, was |-> was, force |-> force ]

\* one engine update: the hook runs, then the engine moves one free body, an
\* emoji ball or a pendulum (the wheels and paddles are pinned where they
\* were made, everything else is static)
Tick(b, pos) ==
    LET hook == BeforeUpdate(bigBall, swingDirection, bigBallAnchorPoint)
    IN  /\ b.kind \in { "emoji", "pendulum" }
        /\ b.position # pos
        /\ swingDirection' = hook.direction
        /\ world' = (world \ { b }) \cup { [ b EXCEPT !.position = pos ] }
        /\ bigBall' = IF bigBall.id = b.id THEN [ bigBall EXCEPT !.position = pos ]
                      ELSE bigBall
        /\ last' = Ticked(swingDirection, hook.force)
        /\ UNCHANGED << RenderWidth, RenderHeight, RenderTop, constraints, emojiCount,
                        bigBallId, emojiMap, pendingLoads, layout,
                    rasterCount, resolved >>

\* one engine update that leaves every body where the model has it
StillTick ==
    LET hook == BeforeUpdate(bigBall, swingDirection, bigBallAnchorPoint)
    IN  /\ swingDirection' = hook.direction
        /\ last' = Ticked(swingDirection, hook.force)
        /\ UNCHANGED << RenderWidth, RenderHeight, RenderTop, world, constraints,
                        emojiCount, bigBallId, bigBall, emojiMap,
                        pendingLoads, layout,
                    rasterCount, resolved >>

\* ----------------------------------------------------------- specification
\* the state the constructor leaves: Init() has run once on the size of the
\* container and its image load is pending
Constructed(dims) ==
    \E d \in dims, lay \in Layouts :
        LET ids == FreshIds({ 0 }, 2 + LayoutIds(lay, d[2]))
            built == BuildLayout(lay, d[1], d[2], Drop(ids, 2))
        IN  /\ RenderWidth = d[1]
            /\ RenderHeight = d[2]
            /\ RenderTop = 0
            /\ world = Boundaries(d[1], d[2], ids) \cup built.bodies
            /\ constraints = built.constraints
            /\ emojiCount = 0
            /\ bigBallId = 0
            /\ bigBall = NoBody
            /\ emojiMap = [ s \in {} |-> "none" ]
            /\ pendingLoads = << ConstraintLength(d[2]) >>
            /\ layout = lay
            /\ swingDirection = -1
            /\ rasterCount = 0
            /\ resolved = {}
            /\ last = Done("init", 0, {})

\* the bounds of the model, as guards of the steps they bound
SpawnBound(live) ==
    emojiCount >= MAX_EMOJIS \/ Cardinality(EmojiBodies(world)) < live
DriftBound(hit) == emojiCount - Cardinality(hit) >= -MaxDrift
LoadBound == Len(pendingLoads) < MaxPending

\* The operations on a built world.  live: the emoji balls the world may hold
\* before spawning stops; emojiPos: where the engine may put an emoji ball
Operate(live, emojiPos) ==
    \/ \E emoji \in Symbols, off \in Offsets(RenderWidth) :
          SpawnBound(live) /\ CreateEmojiBall(emoji, off, "body")
    \/ /\ DriftBound(CleanupHits(world, bigBallId, RenderWidth, RenderHeight))
       /\ Cleanup
    \/ DriftBound(ClearHits(world, bigBallId)) /\ ClearAllEmojis
    \/ \E i \in 1 .. Len(pendingLoads) : PendulumLoaded(i)
    \/ \E i \in 1 .. Len(pendingLoads) : PendulumLoadFailed(i)
    \/ \E b \in EmojiBodies(world), pos \in emojiPos : Tick(b, pos)

\* Init() called again, directly or by a resize to one of dims
Rebuild(dims) ==
    \/ \E lay \in Layouts : LoadBound /\ InitCall(lay)
    \/ \E d \in dims, lay \in Layouts : LoadBound /\ Dimensions(d, RenderTop, lay)

\* the engine moves a pendulum along its arc
Swing ==
    \E b \in Pendulums(world) :
        \E pos \in ArcPositions(RenderWidth, RopeLength(b)) : Tick(b, pos)

\* the engine moves the pendulum that is _bigBall anywhere along its arc
SwingWide ==
    \E b \in Pendulums(world) :
        /\ b.id = bigBallId
        /\ \E pos \in WideArcPositions(RenderWidth, RopeLength(b)) : Tick(b, pos)

\* the population: emoji balls where they spawn or below the playfield
Init == Constructed(Playfield)
Next ==
    \/ Operate(MAX_EMOJIS + MaxOver, CoarsePositions(RenderWidth, RenderHeight))
    \/ Rebuild(Playfield)
Spec == Init /\ [][Next]_vars

\* the cleanup pass: one emoji ball at a time, at every sample position, and
\* swinging pendulums
NextCleanup ==
    \/ Operate(1, SamplePositions(RenderWidth, RenderHeight))
    \/ Rebuild(Playfield)
    \/ Swing
SpecCleanup == Init /\ [][NextCleanup]_vars

\* the bounds test: one emoji ball at a time, at every sample position, with
\* Init() called again once the load of the last has ended
NextBounds ==
    \/ \E emoji \in Symbols : SpawnBound(1) /\ CreateEmojiBall(emoji, 0, "body")
    \/ /\ DriftBound(CleanupHits(world, bigBallId, RenderWidth, RenderHeight))
       /\ Cleanup
    \/ DriftBound(ClearHits(world, bigBallId)) /\ ClearAllEmojis
    \/ \E i \in 1 .. Len(pendingLoads) : PendulumLoaded(i)
    \/ \E lay \in Layouts : pendingLoads = << >> /\ InitCall(lay)
    \/ \E b \in EmojiBodies(world) :
          \E pos \in SamplePositions(RenderWidth, RenderHeight) : Tick(b, pos)
SpecBounds == Init /\ [][NextBounds]_vars

\* the cap: as the population, with spawning stopped once the world holds
\* MAX_EMOJIS emoji balls
NextCap ==
    \/ Operate(MAX_EMOJIS, CoarsePositions(RenderWidth, RenderHeight))
    \/ Rebuild(Playfield)
SpecCap == Init /\ [][NextCap]_vars

\* the swing: the pendulum in every sector of its arc, among the other
\* operations, with Init() called again once the load of the last has ended
NextSwing ==
    \/ \E emoji \in Symbols : SpawnBound(1) /\ CreateEmojiBall(emoji, 0, "body")
    \/ /\ DriftBound(CleanupHits(world, bigBallId, RenderWidth, RenderHeight))
       /\ Cleanup
    \/ DriftBound(ClearHits(world, bigBallId)) /\ ClearAllEmojis
    \/ \E i \in 1 .. Len(pendingLoads) : PendulumLoaded(i)
    \/ \E lay \in Layouts : pendingLoads = << >> /\ InitCall(lay)
    \/ SwingWide
    \/ StillTick
SpecSwing == Init /\ [][NextSwing]_vars

\* the texture cache: a feed of two symbols into a world that holds up to
\* MAX_EMOJIS emoji balls
NextTexture ==
    \/ \E emoji \in Alphabet :
          SpawnBound(MAX_EMOJIS) /\ CreateEmojiBall(emoji, 0, "body")
    \/ /\ DriftBound(CleanupHits(world, bigBallId, RenderWidth, RenderHeight))
       /\ Cleanup
    \/ DriftBound(ClearHits(world, bigBallId)) /\ ClearAllEmojis
    \/ \E i \in 1 .. Len(pendingLoads) : PendulumLoaded(i)
    \/ \E b \in EmojiBodies(world) :
          \E pos \in CoarsePositions(RenderWidth, RenderHeight) : Tick(b, pos)
SpecTexture == Init /\ [][NextTexture]_vars

\* the feed: messages of up to MAX_EMOJIS + MaxBurst symbols, each arriving
\* in a world that holds no emoji ball
NextBurst ==
    \/ \E n \in 1 .. MAX_EMOJIS + MaxBurst :
          \E emojis \in [ 1 .. n -> Symbols \X { 0 } ] :
              EmojiBodies(world) = {} /\ ProcessEvent(emojis)
    \/ /\ DriftBound(CleanupHits(world, bigBallId, RenderWidth, RenderHeight))
       /\ Cleanup
    \/ DriftBound(ClearHits(world, bigBallId)) /\ ClearAllEmojis
    \/ \E i \in 1 .. Len(pendingLoads) : PendulumLoaded(i)
    \/ \E b \in EmojiBodies(world) :
          \E pos \in CoarsePositions(RenderWidth, RenderHeight) : Tick(b, pos)
SpecBurst == Init /\ [][NextBurst]_vars

\* body construction that can fail: every outcome of Bodies.circle
NextFailure ==
    \/ \E emoji \in Symbols, made \in Outcomes :
          SpawnBound(MAX_EMOJIS) /\ CreateEmojiBall(emoji, 0, made)
    \/ /\ DriftBound(CleanupHits(world, bigBallId, RenderWidth, RenderHeight))
       /\ Cleanup
    \/ DriftBound(ClearHits(world, bigBallId)) /\ ClearAllEmojis
    \/ \E i \in 1 .. Len(pendingLoads) : PendulumLoaded(i)
    \/ \E b \in EmojiBodies(world) :
          \E pos \in CoarsePositions(RenderWidth, RenderHeight) : Tick(b, pos)
SpecFailure == Init /\ [][NextFailure]_vars

\* the resize: the container takes either size and either top, while image
\* loads are pending or not
NextResize ==
    \/ \E emoji \in Symbols : SpawnBound(1) /\ CreateEmojiBall(emoji, 0, "body")
    \/ /\ DriftBound(CleanupHits(world, bigBallId, RenderWidth, RenderHeight))
       /\ Cleanup
    \/ DriftBound(ClearHits(world, bigBallId)) /\ ClearAllEmojis
    \/ \E i \in 1 .. Len(pendingLoads) : PendulumLoaded(i)
    \/ \E d \in Dims, t \in Tops, lay \in Layouts :
          LoadBound /\ Dimensions(d, t, lay)
    \/ \E b \in EmojiBodies(world) :
          \E pos \in CoarsePositions(RenderWidth, RenderHeight) : Tick(b, pos)
SpecResize == Init /\ [][NextResize]_vars

\* the life of the cache: the feed of two symbols, with Init() called again
\* and the container resized once the load of the last Init() has ended
NextCache ==
    \/ NextTexture
    \/ \E lay \in Layouts : pendingLoads = << >> /\ InitCall(lay)
    \/ \E d \in Playfield, t \in Tops, lay \in Layouts :
          pendingLoads = << >> /\ Dimensions(d, t, lay)
SpecCache == Init /\ [][NextCache]_vars

\* a constructed world that is never rebuilt
NextNoRebuild ==
    \/ Operate(MAX_EMOJIS + MaxOver, CoarsePositions(RenderWidth, RenderHeight))
    \/ Swing
SpecNoRebuild == Init /\ [][NextNoRebuild]_vars

\* ------------------------------------------------------------------ claims
EmojiIds(w) == { b.id : b \in EmojiBodies(w) }
BodyIds(w) == { b.id : b \in w }
CountedIds == { c.id : c \in last.dec }

\* C1: the world never holds more than MAX_EMOJIS emoji balls.
C1_PopulationBound == Cardinality(EmojiBodies(world)) <= MAX_EMOJIS

\* C2: on a constructed world that is not rebuilt, after every spawn, cleanup
\* pass and ClearAllEmojis the counter equals the number of emoji balls in
\* the world.
C2_CounterExact == emojiCount = Cardinality(EmojiBodies(world))

\* C3: the counter stays within 0 .. MAX_EMOJIS.
C3_CounterRange == 0 <= emojiCount /\ emojiCount <= MAX_EMOJIS

\* C4: a CreateEmojiBall call made while the counter is at or above the cap
\* adds no body, leaves the counter as it was and returns no body.
C4_AtCapNoOp ==
    [][ (last'.op = "spawn" /\ emojiCount >= MAX_EMOJIS)
           => (world' = world /\ emojiCount' = emojiCount /\ last'.ret = 0) ]_vars

\* C4 witness: a call has just been answered with no body, at the cap
C4_Witness ==
    last.op = "spawn" /\ last.ret = 0 /\ emojiCount >= MAX_EMOJIS
       /\ EmojiBodies(world) # {}

\* C5: in every step the counter rises by the number of emoji balls the step
\* added to the world and falls by the number it removed, and by nothing else.
C5_CounterTracksBodies ==
    [][ emojiCount' = emojiCount
                        + Cardinality(EmojiIds(world') \ EmojiIds(world))
                        - Cardinality(EmojiIds(world) \ EmojiIds(world')) ]_vars

\* C6: after ClearAllEmojis no emoji ball is left and the counter is 0, and
\* every other body and every constraint is still in the world, unchanged.
C6_ClearAll ==
    [][ last'.op = "clear"
           => /\ EmojiBodies(world') = {}
              /\ emojiCount' = 0
              /\ world' \ EmojiBodies(world') = world \ EmojiBodies(world)
              /\ constraints' = constraints ]_vars

\* C7: an emoji ball that is strictly below the bottom edge, strictly left of
\* the left edge or strictly right of the right edge when a cleanup pass runs
\* is removed by that pass, and the counter goes down by one for it.
C7_CleanupRemovesOutside ==
    [][ last'.op = "cleanup"
           => /\ \A b \in EmojiBodies(world) :
                    (\/ b.position[2] > Px(RenderHeight)
                     \/ b.position[1] < 0
                     \/ b.position[1] > Px(RenderWidth))
                       => /\ b.id \notin BodyIds(world')
                          /\ b.id \in CountedIds'
              /\ emojiCount' = emojiCount - Cardinality(last'.dec) ]_vars

\* C7 witness: a cleanup pass has just counted down for an emoji ball
C7_Witness ==
    last.op = "cleanup" /\ \E c \in last.dec : c.kind = "emoji"

\* C8: a cleanup pass leaves in the world every emoji ball with
\* 0 <= x <= RenderWidth and y <= RenderHeight, and does not count down for it.
C8_CleanupKeepsInside ==
    [][ last'.op = "cleanup"
           => \A b \in EmojiBodies(world) :
                 (/\ b.position[2] <= Px(RenderHeight)
                  /\ b.position[1] >= 0
                  /\ b.position[1] <= Px(RenderWidth))
                    => b \in world' /\ b.id \notin CountedIds' ]_vars

\* C8 witness: a cleanup pass has just run over an emoji ball that lies on
\* the right and bottom edges, or on the left edge above the top
C8_Witness ==
    /\ last.op = "cleanup"
    /\ \E b \in EmojiBodies(world) :
          b.position \in { << Px(RenderWidth), Px(RenderHeight) >>, << 0, -2 >> }

\* C9: a cleanup pass removes no pendulum, whichever Init() made it, and no
\* obstacle or boundary body.
C9_CleanupKeepsFixtures ==
    [][ last'.op = "cleanup"
           => \A b \in world : b.kind # "emoji" => b \in world' ]_vars

\* C10: the world never holds more than one pendulum, and holds exactly one
\* when the last pending load has completed.
C10_OnePendulum ==
    /\ Cardinality(Pendulums(world)) <= 1
    /\ (pendingLoads = << >> /\ last.op = "onload")
          => Cardinality(Pendulums(world)) = 1

\* kinds of the top-level bodies of a layout, and how many it has on a
\* playfield of height h
ObstacleKinds(lay) ==
    CASE lay = "pegs" -> { "peg" }
      [] lay = "slats" -> { "slat" }
      [] lay = "paddlewheels" -> { "wheel" }
      [] lay = "paddles" -> { "paddle" }
ObstacleCount(lay, h) ==
    CASE lay = "pegs" -> PegsBefore(PegRows(h), PegCols(h))
      [] lay = "slats" -> Round(h, 150)
      [] lay = "paddlewheels" -> 2
      [] lay = "paddles" -> 2
PinCount(lay) == IF lay \in { "paddlewheels", "paddles" } THEN 2 ELSE 0

\* C11: right after every Init() the world holds exactly two boundary bodies
\* and the bodies and constraints of exactly one of the four layouts, and
\* nothing of an earlier build.
C11_OneLayout ==
    last.op = "init" =>
        /\ Cardinality({ b \in world : b.kind = "boundary" }) = 2
        /\ \E lay \in Layouts :
              /\ \A b \in world : b.kind \in { "boundary" } \cup ObstacleKinds(lay)
              /\ Cardinality({ b \in world : b.kind \in ObstacleKinds(lay) })
                    = ObstacleCount(lay, RenderHeight)
              /\ Cardinality(constraints) = PinCount(lay)
              /\ \A c \in constraints :
                    c.kind = "pin" /\ c.bodyB \in BodyIds(world)

\* C11 witness: Init() has just rebuilt a world that emoji balls had been
\* spawned into and a pendulum had been loaded into
C11_Witness == last.op = "init" /\ emojiCount > 0 /\ bigBallId # 0

\* the angle of _bigBall about the anchor, as the hook of the next tick
\* will measure it
BallDx == bigBall.position[1] - bigBallAnchorPoint[1]
BallDy == bigBall.position[2] - bigBallAnchorPoint[2]
Steep == TanDen * Abs(BallDy) >= TanNum * Abs(BallDx)

\* C12: the swing direction goes from -1 to +1 only in a physics tick that
\* found |angle| > 0.7 pi, from +1 to -1 only in a physics tick that found
\* |angle| < 0.3 pi, and no other step changes it.
C12_DirectionFlips ==
    [][ /\ (swingDirection = -1 /\ swingDirection' = 1)
              => /\ last'.op = "tick"
                 /\ bigBall # NoBody
                 /\ BallDx < 0 /\ ~Steep
        /\ (swingDirection = 1 /\ swingDirection' = -1)
              => /\ last'.op = "tick"
                 /\ bigBall # NoBody
                 /\ ((BallDx > 0 /\ ~Steep) \/ (BallDx = 0 /\ BallDy = 0))
        /\ swingDirection' \in { -1, 1 } ]_vars

\* C12 witness: a tick has just found the direction positive, which an
\* earlier tick had made it, and reversed it
C12_Witness == last.op = "tick" /\ last.was = 1 /\ swingDirection = -1

\* C19: in every physics tick the hook applies the horizontal force
\* direction * swingForce, with the direction as the tick leaves it, exactly
\* when the direction is +1 and |angle| < pi/2 or the direction is -1 and
\* |angle| > pi/2, and no force otherwise.
C19_ForceLaw ==
    [][ (last'.op = "tick" /\ bigBall # NoBody)
           => last'.force =
                 IF \/ (swingDirection' = 1
                          /\ (BallDx > 0 \/ (BallDx = 0 /\ BallDy = 0)))
                    \/ (swingDirection' = -1 /\ BallDx < 0)
                 THEN swingDirection' * swingForce
                 ELSE 0 ]_vars

\* C19 witness: a tick has just pushed the pendulum
C19_Witness == last.op = "tick" /\ last.force # 0

\* pendulums of the world that hang on a rope from the anchor
Roped(w, cs) ==
    { b \in Pendulums(w) :
         \E c \in cs : c.kind = "rope" /\ c.bodyB = b.id }

\* C13: when the image of the pendulum has failed to load, the pendulum
\* body and its rope are in the world all the same.
C13_PendulumWithoutSprite ==
    last.op = "onerror" => Roped(world, constraints) # {}

\* C14: the first resolution of a symbol draws it once and stores the
\* texture, every later resolution of it returns the stored texture and
\* draws nothing, and so the number of drawings is the number of distinct
\* symbols resolved.
C14_CacheOnce ==
    [][ (last'.op = "spawn" /\ last'.texture # "none")
           => /\ last'.emoji \notin resolved
                    => /\ rasterCount' = rasterCount + 1
                       /\ last'.emoji \in DOMAIN emojiMap'
                       /\ emojiMap'[last'.emoji] = last'.texture
              /\ last'.emoji \in resolved
                    => /\ rasterCount' = rasterCount
                       /\ emojiMap' = emojiMap
                       /\ last'.texture = emojiMap[last'.emoji]
              /\ rasterCount' = Cardinality(resolved') ]_vars

\* C14 witness: a call has just been given the texture of its symbol from
\* the cache, with both symbols drawn once
C14_Witness ==
    /\ last.op = "spawn" /\ last.texture # "none" /\ last.drawn = 0
    /\ rasterCount = 2

\* C20: every CreateEmojiBall call resolves its symbol through the texture
\* cache, whether or not the spawn is then rejected.
C20_LookupOnEveryCall ==
    [][ last'.op = "spawn"
           => last'.emoji \in resolved' /\ last'.emoji \in DOMAIN emojiMap' ]_vars

\* C20 as amended: a call made at or above the cap returns without asking
\* the cache, which stays as it was; a call made below the cap resolves its
\* symbol through the cache and gives the body it makes that texture.
C20_CapThenLookup ==
    [][ last'.op = "spawn"
           => IF emojiCount >= MAX_EMOJIS
              THEN /\ emojiMap' = emojiMap
                   /\ resolved' = resolved
                   /\ rasterCount' = rasterCount
                   /\ last'.texture = "none"
                   /\ world' = world
              ELSE /\ last'.emoji \in resolved'
                   /\ last'.emoji \in DOMAIN emojiMap'
                   /\ last'.texture = emojiMap'[last'.emoji]
                   /\ \E b \in world' \ world :
                         b.id = last'.ret /\ b.texture = last'.texture ]_vars

\* C20 witness: a call has just been rejected at the cap, for a symbol the
\* cache has never held
C20_Witness ==
    /\ last.op = "spawn" /\ last.ret = 0 /\ emojiCount >= MAX_EMOJIS
    /\ last.emoji \notin DOMAIN emojiMap

Min(a, b) == IF a < b THEN a ELSE b
Max(a, b) == IF a > b THEN a ELSE b

\* C15: N consecutive CreateEmojiBall calls on a world with counter 0 and no
\* emoji ball leave the counter and the number of emoji balls at
\* min(N, MAX_EMOJIS), with max(0, N - MAX_EMOJIS) of the calls rejected.
C15_Burst ==
    [][ (last'.op = "event" /\ emojiCount = 0 /\ EmojiBodies(world) = {})
           => /\ emojiCount' = Min(last'.calls, MAX_EMOJIS)
              /\ Cardinality(EmojiBodies(world')) = Min(last'.calls, MAX_EMOJIS)
              /\ last'.rejected = Max(0, last'.calls - MAX_EMOJIS) ]_vars

\* C15 witness: a message of more than MAX_EMOJIS symbols has just filled
\* the world to the cap and had the rest of its calls rejected
C15_Witness ==
    /\ last.op = "event" /\ last.calls > MAX_EMOJIS
    /\ last.rejected = last.calls - MAX_EMOJIS
    /\ emojiCount = MAX_EMOJIS
    /\ Cardinality(EmojiBodies(world)) = MAX_EMOJIS

\* C16: a CreateEmojiBall call whose body construction fails, by returning
\* no body or by throwing, ends with the counter as it was before the call
\* and with no body added to the world.
C16_FailedCreation ==
    [][ (last'.op = "spawn" /\ last'.made \in { "none", "throws" })
           => emojiCount' = emojiCount /\ world' = world ]_vars

\* C17: an emoji ball leaves the world only in a cleanup pass or in a
\* ClearAllEmojis call; no other step, Init() and Dimensions included,
\* removes one.
C17_EmojiLeavesByCleanupOrClear ==
    [][ (EmojiIds(world) \ EmojiIds(world') # {})
           => last'.op \in { "cleanup", "clear" } ]_vars

\* C17 as amended: an emoji ball leaves the world only in a cleanup pass
\* that finds it below the bottom edge or beyond the left or right edge, in
\* a ClearAllEmojis call, or in an Init(), called directly or by a
\* Dimensions assignment, which clears the world of every body.
C17_EmojiLeavesByCleanupClearOrInit ==
    [][ /\ \A b \in EmojiBodies(world) :
              b.id \notin EmojiIds(world')
                 => \/ /\ last'.op = "cleanup"
                       /\ \/ b.position[2] > Px(RenderHeight)
                          \/ b.position[1] < 0
                          \/ b.position[1] > Px(RenderWidth)
                    \/ last'.op \in { "clear", "init" }
        /\ last'.op = "init" => EmojiBodies(world') = {} ]_vars

\* C17 witness: Init() has just cleared a world of the emoji balls the
\* counter still counts
C17_Witness ==
    last.op = "init" /\ emojiCount > 0 /\ EmojiBodies(world) = {}

PendulumIds(w) == { b.id : b \in Pendulums(w) }
Ropes(cs) == { c \in cs : c.kind = "rope" }

\* C18: a rebuild runs to completion within the Init() call: when Init()
\* returns the pendulum and its rope are in the world with the boundaries
\* and the layout, and no later step adds a pendulum or a rope.
C18_RebuildSynchronous ==
    [][ /\ last'.op = "init"
              => /\ Roped(world', constraints') # {}
                 /\ pendingLoads' = << >>
        /\ last'.op # "init"
              => /\ PendulumIds(world') \subseteq PendulumIds(world)
                 /\ Ropes(constraints') \subseteq Ropes(constraints) ]_vars

\* C21: a Dimensions assignment stores width, height and top and rebuilds
\* for them: the step leaves the boundaries of the new playfield and no
\* pendulum of the old one, every pendulum the world holds from then on
\* hangs from the anchor of the current playfield on a rope of the length of
\* its height, and every cleanup pass tests against its bounds.
C21_ResizeRebuilds ==
    [][ /\ << RenderWidth', RenderHeight', RenderTop' >>
              # << RenderWidth, RenderHeight, RenderTop >>
              => /\ last'.op = "init"
                 /\ Pendulums(world') = {}
                 /\ { b.position : b \in { x \in world' : x.kind = "boundary" } }
                       = { << RenderWidth', Px(-10) >>,
                           << RenderWidth', Px(RenderHeight' - bottomBorderOffset) >> }
        /\ \A b \in Pendulums(world') :
              \A c \in Ropes(constraints') :
                 c.bodyB = b.id
                    => /\ c.length = ConstraintLength(RenderHeight')
                       /\ c.pointA = << RenderWidth', 0 >>
        /\ last'.op = "cleanup"
              => \A b \in EmojiBodies(world) :
                    b.id \notin EmojiIds(world')
                       <=> \/ b.position[2] > Px(RenderHeight)
                           \/ b.position[1] < 0
                           \/ b.position[1] > Px(RenderWidth) ]_vars

\* C22: no step removes or replaces an entry of the texture cache, and the
\* texture of every emoji ball in the world is an entry of the cache.
C22_CacheOnlyGrows ==
    [][ /\ \A s \in DOMAIN emojiMap :
              s \in DOMAIN emojiMap' /\ emojiMap'[s] = emojiMap[s]
        /\ \A b \in EmojiBodies(world') :
              \E s \in DOMAIN emojiMap' : emojiMap'[s] = b.texture ]_vars

\* C22 witness: the cache holds both symbols, the world a ball with the
\* texture of the first one cached, and the world has been rebuilt since
C22_Witness ==
    /\ DOMAIN emojiMap = Alphabet
    /\ bigBallId # 0 /\ Pendulums(world) = {}
    /\ \E b \in EmojiBodies(world) : b.texture = emojiMap["fire"]

\* C23: a CreateEmojiBall call made while the world holds fewer than
\* MAX_EMOJIS emoji balls is accepted and adds exactly one body.
C23_NoSpuriousRejection ==
    [][ (last'.op = "spawn" /\ Cardinality(EmojiBodies(world)) < MAX_EMOJIS)
           => /\ last'.ret # 0
              /\ Cardinality(world' \ world) = 1
              /\ world \subseteq world' ]_vars

\* C24: in every tick in which the hook works on _bigBall, _bigBall is the
\* pendulum the world holds and _bigBallId is its id.
C24_HookOnLivePendulum ==
    [][ (last'.op = "tick" /\ bigBall # NoBody)
           => /\ PendulumIds(world) = { bigBall.id }
              /\ bigBallId = bigBall.id
              /\ bigBall \in world ]_vars

\* C25: a tick that reverses the direction applies no force, a force to
\* the right is applied only while |angle| < pi/2 and a force to the left
\* only while |angle| > pi/2.
C25_FlipWithoutForce ==
    [][ last'.op = "tick"
           => /\ swingDirection' # swingDirection => last'.force = 0
              /\ last'.force > 0
                    => BallDx > 0 \/ (BallDx = 0 /\ BallDy = 0)
              /\ last'.force < 0 => BallDx < 0 ]_vars

\* C25 witness: a tick has just turned the direction from negative to
\* positive and applied no force
C25_Witness ==
    last.op = "tick" /\ last.was = -1 /\ swingDirection = 1 /\ last.force = 0

\* C26: a cleanup pass leaves in the world every emoji ball with y < 0 and
\* 0 <= x <= RenderWidth, and does not count down for it.
C26_AboveTopStays ==
    [][ last'.op = "cleanup"
           => \A b \in EmojiBodies(world) :
                 (/\ b.position[2] < 0
                  /\ b.position[1] >= 0
                  /\ b.position[1] <= Px(RenderWidth))
                    => /\ b \in world'
                       /\ b.id \notin CountedIds'
                       /\ emojiCount' = emojiCount - Cardinality(last'.dec) ]_vars

\* C26 witness: a cleanup pass has just run over an emoji ball above the
\* top edge and left it in the world
C26_Witness ==
    /\ last.op = "cleanup"
    /\ \E b \in EmojiBodies(world) : b.position[2] < 0

====
